---- MODULE Spec2Model ----
(***************************************************************************)
(* Conversion orchestration of any2any's browser client.                   *)
(*                                                                         *)
(* Three revisions of the client are modelled, selected by the variable    *)
(* rev, which is fixed by Init:                                            *)
(*   "static"    src/static/app.js            local engine + synchronous   *)
(*                                            remote reply                 *)
(*   "imageonly" src/static/js/app.js:313-672 image-only local engine +    *)
(*                                            synchronous remote reply     *)
(*   "polling"   src/static/js/app.js:674-988 local engine + job polling   *)
(* A fourth, "first" (src/static/js/app.js:1-311), has no local engine:     *)
(* only its resolver is modelled, under ResolverSpec.                      *)
(*                                                                         *)
(* The DOM elements the handlers write (bar, barInd, statusLine,           *)
(* resultBox) are one shared record, dom: every handler of every click     *)
(* writes the same elements.  Each click of Convert that passes the        *)
(* handler's guards appends one record to conv; the record holds what the  *)
(* handler's closures capture (file, srcExt, target, xhr, pollTimer) and   *)
(* the position of its asynchronous continuation.                          *)
(*                                                                         *)
(* Texts: the ellipsis character of the source is written "...".           *)
(* escapeHtml is left out: no name of the model holds one of & < > ".      *)
(***************************************************************************)
EXTENDS Integers, Sequences, FiniteSets, TLC

\* ------------------------------------------------------------------ bounds
\* Largest page count pdf.numPages reports.
MaxPages == 3
\* Status fetches of one job in flight at once.
MaxInflight == 2
\* Upload size, in progress-event units (ev.total).
UploadTotal == 2

\* rev     the revision of the client that is running
\* ui      the file input, the target select, its chips, the local toggle and
\*         the Convert button
\* dom     bar, barInd, statusLine and resultBox
\* conv    one record per click of Convert that passed the handler's guards
\* clicks  the clicks of Convert the behaviour still follows
VARIABLES rev, ui, dom, conv, clicks
vars == <<rev, ui, dom, conv, clicks>>

Revs == {"static", "imageonly", "polling"}

\* The revision before the local engine, src/static/js/app.js:1-311: its format
\* lists and resolver are those of the image-only revision, and it has no
\* LOCAL_OK.  Only its resolver is modelled.
AllRevs == Revs \cup {"first"}

\* The revisions whose front end lists the v1 formats only
V1 == rev \in {"first", "imageonly"}

\* ------------------------------------------------------------ sequence helpers
\* Array.prototype.includes
Includes(s, x) == \E i \in 1..Len(s) : s[i] = x

\* Array.prototype.filter(x => x !== e)
Without(s, e) == SelectSeq(s, LAMBDA y : y # e)

\* [...new Set(s)]: first occurrences, in order
RECURSIVE Dedup(_)
Dedup(s) ==
  IF s = <<>> THEN <<>>
  ELSE LET front == Dedup(SubSeq(s, 1, Len(s) - 1))
       IN IF Includes(front, s[Len(s)]) THEN front ELSE Append(front, s[Len(s)])

\* ------------------------------------------------------------ capability table
IMAGE_IN ==
  IF V1
  THEN <<"jpg", "jpeg", "png", "webp", "tiff", "bmp">>
  ELSE <<"jpg", "jpeg", "png", "webp", "gif", "tiff", "bmp", "ico", "pdf">>

AV_IN ==
  IF V1 THEN <<>>
  ELSE <<"mp3", "wav", "aac", "flac", "ogg", "mp4", "mkv", "mov", "webm">>

DOC_IN ==
  IF V1 THEN <<"pdf">>
  ELSE <<"pdf", "doc", "docx", "ppt", "pptx", "xls", "xlsx", "odt", "odp", "ods",
         "rtf", "txt">>

DATA_IN ==
  IF V1 THEN <<>>
  ELSE <<"csv", "xlsx", "txt", "vcf", "srt", "vtt", "json", "yaml", "yml">>

IMAGE_OUT == IMAGE_IN

AV_OUT == AV_IN

DOC_OUT == <<"pdf", "docx", "pptx", "xlsx", "odt", "odp", "ods">>

DATA_OUT ==
  <<"phonecsv", "csv", "vcf", "srt", "vtt", "csv_from_json", "json_from_csv",
    "json_from_yaml", "yaml_from_json">>

LOCAL_OK ==
  IF rev = "first" THEN [e \in {} |-> {}]
  ELSE IF rev = "imageonly"
  THEN [pdf  |-> {"jpg", "png", "webp"},
        jpg  |-> {"png", "webp"},
        jpeg |-> {"png", "webp"},
        png  |-> {"jpg", "webp"},
        webp |-> {"jpg", "png"},
        bmp  |-> {"jpg", "png", "webp"},
        tiff |-> {"jpg", "png", "webp"}]
  ELSE [pdf  |-> {"jpg", "png", "webp"},
        jpg  |-> {"png", "webp"},
        jpeg |-> {"png", "webp"},
        png  |-> {"jpg", "webp"},
        webp |-> {"jpg", "png"},
        bmp  |-> {"jpg", "png", "webp"},
        gif  |-> {"jpg", "png", "webp"},
        tiff |-> {"jpg", "png", "webp"},
        ico  |-> {"png", "webp"}]

\* ------------------------------------------------------------ file names
\* A file name is the sequence of its segments between dots:
\* "report.pdf" is <<"report", "pdf">>, "notes" is <<"notes">>.
RECURSIVE Join(_)
Join(segs) ==
  IF segs = <<>> THEN ""
  ELSE IF Len(segs) = 1 THEN segs[1]
  ELSE Join(SubSeq(segs, 1, Len(segs) - 1)) \o "." \o segs[Len(segs)]

\* String.prototype.toLowerCase on the extensions the model's files carry
toLowerCase(s) ==
  CASE s = "PDF"  -> "pdf"
    [] s = "JPEG" -> "jpeg"
    [] OTHER      -> s

\* /\.[^.]+$/ matches: a dot followed by a non-empty last segment
HasExt(segs) == Len(segs) >= 2 /\ segs[Len(segs)] # ""

extOf(segs) == IF HasExt(segs) THEN toLowerCase(segs[Len(segs)]) ELSE ""

FrontOf(segs) == SubSeq(segs, 1, Len(segs) - 1)

\* ------------------------------------------------------------ resolver
guessCategory(ext) ==
  IF V1
  THEN IF Includes(DOC_IN, ext) THEN "doc"
       ELSE IF Includes(IMAGE_IN, ext) THEN "image"
       ELSE "doc"
  ELSE IF ext = "pdf" THEN "doc"
       ELSE IF Includes(IMAGE_IN, ext) THEN "image"
       ELSE IF Includes(AV_IN, ext)
            THEN (IF Includes(<<"mp4", "mkv", "mov", "webm">>, ext)
                  THEN "video" ELSE "audio")
       ELSE IF Includes(DOC_IN, ext) THEN "doc"
       ELSE IF Includes(DATA_IN, ext) THEN "data"
       ELSE "doc"

suggestedTargets_None(ext, cat) == <<>>

suggestedTargets(ext, cat) ==
  IF V1
  THEN IF Includes(IMAGE_IN, ext) THEN <<"pdf", "docx">>
       ELSE IF ext = "pdf" THEN <<"jpg", "png", "webp", "docx">>
       ELSE <<>>
  ELSE IF ext = "pdf" THEN <<"jpg", "png", "webp", "docx">>
       ELSE IF cat = "image" THEN Without(<<"jpg", "png", "webp", "pdf">>, ext)
       ELSE IF cat = "video" THEN <<"mp4", "webm", "mp3">>
       ELSE IF cat = "audio" THEN Without(<<"mp3", "wav", "aac", "flac">>, ext)
       ELSE IF cat = "doc"
            THEN Without(<<"pdf", "docx", "pptx", "xlsx", "odt", "odp", "ods">>, ext)
       ELSE IF cat = "data"
            THEN <<"phonecsv", "csv", "vcf", "vtt", "srt", "csv_from_json",
                   "json_from_csv">>
       ELSE <<>>

allTargetsFor(ext, cat) ==
  IF V1
  THEN IF Includes(IMAGE_IN, ext) THEN <<"pdf", "docx">>
       ELSE IF ext = "pdf" THEN <<"jpg", "png", "webp", "docx">>
       ELSE <<>>
  ELSE IF ext = "pdf" THEN Dedup(Without(IMAGE_OUT, "pdf") \o <<"docx">>)
       ELSE IF cat = "image" THEN Without(IMAGE_OUT, ext)
       ELSE IF cat = "video" \/ cat = "audio" THEN Without(AV_OUT, ext)
       ELSE IF cat = "data" THEN DATA_OUT
       ELSE Without(DOC_OUT, ext)

canDoLocal_Always(srcExt, targetExt) == TRUE

canDoLocal(srcExt, targetExt) ==
  srcExt \in DOMAIN LOCAL_OK /\ targetExt \in LOCAL_OK[srcExt]

\* ------------------------------------------------------------ numbers
\* Math.round(num / den) for den > 0: to the nearest integer, halves upwards
MathRound(num, den) == (2 * num + den) \div (2 * den)

Max(a, b) == IF a >= b THEN a ELSE b

Min(a, b) == IF a <= b THEN a ELSE b

\* ------------------------------------------------------------ DOM
\* resultBox: the pill shown ("" for none), the link and the text after it
Result(pill, href, filename, text, time) ==
  [pill |-> pill, href |-> href, filename |-> filename, text |-> text, time |-> time]

EmptyResult == Result("", "", "", "", "")

\* resultBox.innerHTML = ""; statusLine.textContent = ""; bar 0%; barInd hidden
ResetDom == [bar |-> 0, barInd |-> FALSE, status |-> "", result |-> EmptyResult]

\* `${v}` of a field the object does not have
Interp(v) == IF v = "" THEN "undefined" ELSE v

\* ------------------------------------------------------------ inputs
NoFile == <<>>

Files ==
  { <<"photo", "png">>, <<"report", "pdf">>, <<"deck", "pptx">>, <<"Scan", "JPEG">> }

\* The options a user picks in the select (the default selection is not limited)
UserTargets == {"jpg", "webp", "pdf", "docx"}

NoPoll ==
  [kind |-> "none",
   s |-> [status |-> "", hasPct |-> FALSE, percent |-> 0, msg |-> "",
          download |-> "", filename |-> "", error |-> ""],
   pct |-> 0]

NoFd == [keys |-> {}, file |-> NoFile, target |-> "", category |-> ""]

\* xhr.status and xhr.responseText before the request completes
NoXhr ==
  [status |-> 0,
   body |-> [text |-> "", json |-> FALSE, job_id |-> "", download |-> "",
             filename |-> "", process_time |-> "", detail |-> ""]]

\* What one click's closures hold, and where its continuation stands.
\*   local    none | running | failed | done       the local attempt
\*   pcts     the widths convertLocal wrote to bar, in order
\*   nSend    calls of xhr.send        nResult  writes of a result to resultBox
\*   terminal a poll has handled status done or error
NewConv(file, srcExt, target) ==
  [file |-> file, srcExt |-> srcExt, target |-> target, pc |-> "start",
   local |-> "none", pages |-> 0, i |-> 0, done |-> 0, zip |-> <<>>, pcts |-> <<>>,
   out |-> EmptyResult, fd |-> NoFd, xhr |-> NoXhr, nSend |-> 0, loaded |-> 0,
   timer |-> "null", inflight |-> 0, nResult |-> 0, terminal |-> FALSE,
   lastPoll |-> NoPoll]

Convs == DOMAIN conv

\* The indices conv can have
ConvIds == {1, 2}

\* A continuation that runs before any other event is handled: the rejection of
\* convertLocal's promise (a microtask), and the error event that follows
\* readystatechange in the same task.
Pending == \E c \in Convs : conv[c].pc \in {"throw", "onerror"}

\* ------------------------------------------------------------ Init
Init ==
  /\ rev \in Revs
  /\ ui \in [file : {NoFile}, target : {""}, opts : {<<>>}, top : {<<>>},
             local : BOOLEAN, disabled : BOOLEAN]
  /\ dom = ResetDom
  /\ conv = <<>>
  /\ clicks = 1

\* ------------------------------------------------------------ UI
enableConvertIfReady_Always(u) == [u EXCEPT !.disabled = FALSE]

enableConvertIfReady(u) ==
  [u EXCEPT !.disabled = ~(u.file # NoFile /\ u.target # "")]

\* Options, chips and the default selection
setSuggestions_NoFilter(u, ext, cat) ==
  LET opts == allTargetsFor(ext, cat)
      top  == suggestedTargets(ext, cat)
      sel  == IF Len(opts) > 0 THEN opts[1] ELSE ""
      tgt  == IF Len(top) > 0 THEN top[1] ELSE sel
  IN enableConvertIfReady([u EXCEPT !.opts = opts, !.top = top, !.target = tgt])

setSuggestions(u, ext, cat) ==
  LET opts == allTargetsFor(ext, cat)
      top  == SelectSeq(suggestedTargets(ext, cat), LAMBDA x : Includes(opts, x))
      sel  == IF Len(opts) > 0 THEN opts[1] ELSE ""
      tgt  == IF Len(top) > 0 THEN top[1] ELSE sel
  IN enableConvertIfReady([u EXCEPT !.opts = opts, !.top = top, !.target = tgt])

onFilePicked(f) ==
  /\ ~Pending
  /\ dom' = ResetDom
  /\ LET ext == extOf(f)
         cat == guessCategory(ext)
     IN ui' = enableConvertIfReady(setSuggestions([ui EXCEPT !.file = f], ext, cat))
  /\ UNCHANGED <<rev, conv, clicks>>

\* change event of the select
SelectTarget(t) ==
  /\ ~Pending /\ clicks > 0
  /\ Includes(ui.opts, t)
  /\ ui' = enableConvertIfReady([ui EXCEPT !.target = t])
  /\ UNCHANGED <<rev, dom, conv, clicks>>

\* click of a chip
ChipClick(fmt) ==
  /\ ~Pending /\ clicks > 0
  /\ Includes(ui.top, fmt)
  /\ ui' = enableConvertIfReady([ui EXCEPT !.target = fmt])
  /\ UNCHANGED <<rev, dom, conv, clicks>>

ToggleLocal ==
  /\ ~Pending /\ clicks > 0
  /\ ui' = [ui EXCEPT !.local = ~ui.local]
  /\ UNCHANGED <<rev, dom, conv, clicks>>

\* ------------------------------------------------------------ server path
\* FormData of the submission
FormDataOf(file, srcExt, target) ==
  IF rev = "imageonly"
  THEN [keys |-> {"file", "target", "category"}, file |-> file, target |-> target,
        category |-> guessCategory(srcExt)]
  ELSE [keys |-> {"file", "target"}, file |-> file, target |-> target,
        category |-> ""]

\* statusLine "Uploading..."; FormData; xhr.open; handlers; xhr.send(fd)
ServerPath(d, cr) ==
  [dom  |-> [d EXCEPT !.status = "Uploading..."],
   conv |-> [cr EXCEPT !.pc = "upload", !.loaded = 0, !.nSend = cr.nSend + 1,
                       !.fd = FormDataOf(cr.file, cr.srcExt, cr.target)]]

\* ------------------------------------------------------------ local engine
PdfTargets == <<"jpg", "png", "webp">>

PdfBranch(cr) == cr.srcExt = "pdf" /\ Includes(PdfTargets, cr.target)

ImageSources ==
  IF rev = "imageonly"
  THEN <<"jpg", "jpeg", "png", "webp", "bmp", "tiff">>
  ELSE <<"jpg", "jpeg", "png", "webp", "gif", "tiff", "bmp", "ico">>

ImageBranch(cr) ==
  Includes(ImageSources, cr.srcExt) /\ Includes(<<"jpg", "png", "webp">>, cr.target)

\* convertLocal up to its first await
convertLocal(d, cr) ==
  IF rev # "imageonly" /\ PdfBranch(cr)
  THEN [dom  |-> [d EXCEPT !.status = "Preparing PDF..."],
        conv |-> [cr EXCEPT !.pc = "arrayBuffer", !.local = "running"]]
  ELSE IF ImageBranch(cr)
  THEN [dom  |-> [d EXCEPT !.status = "Decoding image..."],
        conv |-> [cr EXCEPT !.pc = "createImageBitmap", !.local = "running"]]
  ELSE [dom  |-> d,
        conv |-> [cr EXCEPT !.pc = "throw", !.local = "running"]]

\* The click handler of Convert, up to its first await or to xhr.send
ClickConvert ==
  /\ ~Pending
  /\ clicks > 0
  /\ ~ui.disabled
  /\ ui.file # NoFile /\ ui.target # ""
  /\ LET srcExt == extOf(ui.file)
         cr     == NewConv(ui.file, srcExt, ui.target)
         st     == IF ui.local /\ canDoLocal(srcExt, ui.target)
                   THEN convertLocal(ResetDom, cr)
                   ELSE ServerPath(ResetDom, cr)
     IN /\ dom' = st.dom
        /\ conv' = Append(conv, st.conv)
  /\ clicks' = clicks - 1
  /\ UNCHANGED <<rev, ui>>

\* ---- convertLocal, PDF branch ----
SetConv(c, cr) == [conv EXCEPT ![c] = cr]

At(c, pc) == c \in Convs /\ ~Pending /\ conv[c].pc = pc

\* await file.arrayBuffer()
ArrayBufferOk(c) ==
  /\ At(c, "arrayBuffer")
  /\ conv' = SetConv(c, [conv[c] EXCEPT !.pc = "getDocument"])
  /\ UNCHANGED <<rev, ui, dom, clicks>>

\* for (let i = 1; i <= pages; i++): the loop test, then the await it leads to
LoopOrZip(cr) ==
  IF cr.i <= cr.pages THEN [cr EXCEPT !.pc = "getPage"]
  ELSE [cr EXCEPT !.pc = "generateAsync"]

\* await PDFJS.getDocument(...).promise; pages = pdf.numPages; zip; done = 0; i = 1
GetDocumentOk(c, n) ==
  /\ At(c, "getDocument")
  /\ conv' = SetConv(c, LoopOrZip([conv[c] EXCEPT !.pages = n, !.zip = <<>>,
                                                  !.done = 0, !.i = 1]))
  /\ UNCHANGED <<rev, ui, dom, clicks>>

\* await pdf.getPage(i); viewport; canvas
GetPageOk(c) ==
  /\ At(c, "getPage")
  /\ conv' = SetConv(c, [conv[c] EXCEPT !.pc = "render"])
  /\ UNCHANGED <<rev, ui, dom, clicks>>

\* await page.render(...).promise
RenderOk(c) ==
  /\ At(c, "render")
  /\ conv' = SetConv(c, [conv[c] EXCEPT !.pc = "toBlob"])
  /\ UNCHANGED <<rev, ui, dom, clicks>>

\* `page-${i}.${targetExt}`
PageEntry_FromZero(i, targetExt) == "page-" \o ToString(i - 1) \o "." \o targetExt

PageEntry(i, targetExt) == "page-" \o ToString(i) \o "." \o targetExt

\* Math.round((done/pages)*100)
PagePercent_Floor(done, pages) == (done * 100) \div pages

PagePercent(done, pages) == MathRound(done * 100, pages)

\* await canvas.toBlob; zip.file(...); done++; pct; bar; statusLine; i++
ToBlobOk(c) ==
  /\ At(c, "toBlob")
  /\ LET cr   == conv[c]
         done == cr.done + 1
         pct  == PagePercent(done, cr.pages)
     IN /\ dom' = [dom EXCEPT !.bar = pct,
                              !.status = "Processing... " \o ToString(pct) \o "% ("
                                         \o ToString(done) \o "/"
                                         \o ToString(cr.pages) \o ")"]
        /\ conv' = SetConv(c, LoopOrZip(
                     [cr EXCEPT !.zip = Append(cr.zip, PageEntry(cr.i, cr.target)),
                                !.done = done, !.pcts = Append(cr.pcts, pct),
                                !.i = cr.i + 1]))
  /\ UNCHANGED <<rev, ui, clicks>>

\* file.name.replace(/\.pdf$/i, `_${targetExt}.zip`)
ZipName(file, targetExt) ==
  IF HasExt(file) /\ toLowerCase(file[Len(file)]) = "pdf"
  THEN Join(FrontOf(file)) \o "_" \o targetExt \o ".zip"
  ELSE Join(file)

\* file.name.replace(/\.[^.]+$/, "") and `${base}.${targetExt}`
ImageName(file, targetExt) ==
  (IF HasExt(file) THEN Join(FrontOf(file)) ELSE Join(file)) \o "." \o targetExt

\* The click handler after `await convertLocal(...)` returned out: the Done link,
\* then return
LocalDone_FallThrough(d, cr, url, filename) ==
  ServerPath([d EXCEPT !.result =
                Result("Done", url, filename, "Download " \o filename, "elapsed")],
             [cr EXCEPT !.local = "done", !.nResult = cr.nResult + 1,
                        !.out = Result("Done", url, filename, "", "")])

LocalDone(d, cr, url, filename) ==
  [dom  |-> [d EXCEPT !.result =
               Result("Done", url, filename, "Download " \o filename, "elapsed")],
   conv |-> [cr EXCEPT !.pc = "end", !.local = "done", !.nResult = cr.nResult + 1,
                       !.out = Result("Done", url, filename, "", "")]]

\* await zip.generateAsync(...); url; name; return { url, filename: name }
GenerateAsyncOk(c) ==
  /\ At(c, "generateAsync")
  /\ LET st == LocalDone(dom, conv[c], "blob:zip",
                         ZipName(conv[c].file, conv[c].target))
     IN dom' = st.dom /\ conv' = SetConv(c, st.conv)
  /\ UNCHANGED <<rev, ui, clicks>>

\* ---- convertLocal, image branch ----
\* await createImageBitmap(file); bar 30%; canvas; drawImage; bar 60%
CreateImageBitmapOk(c) ==
  /\ At(c, "createImageBitmap")
  /\ dom' = [dom EXCEPT !.bar = 60]
  /\ conv' = SetConv(c, [conv[c] EXCEPT !.pc = "toBlobImage",
                                        !.pcts = conv[c].pcts \o <<30, 60>>])
  /\ UNCHANGED <<rev, ui, clicks>>

\* await canvas.toBlob; url; base; bar 100%; "Done."; return { url, filename }
ToBlobImageOk(c) ==
  /\ At(c, "toBlobImage")
  /\ LET cr == [conv[c] EXCEPT !.pcts = Append(conv[c].pcts, 100)]
         st == LocalDone([dom EXCEPT !.bar = 100, !.status = "Done."], cr,
                         "blob:image", ImageName(cr.file, cr.target))
     IN dom' = st.dom /\ conv' = SetConv(c, st.conv)
  /\ UNCHANGED <<rev, ui, clicks>>

\* ---- the catch of the click handler ----
LocalPcs ==
  {"arrayBuffer", "getDocument", "getPage", "render", "toBlob", "generateAsync",
   "createImageBitmap", "toBlobImage"}

\* catch(err){ console.warn(...) }, then the server path
CatchLocal_Surface(d, cr) ==
  [dom  |-> [d EXCEPT !.result = Result("Error", "", "", "Local conversion failed.", "")],
   conv |-> [cr EXCEPT !.pc = "end", !.local = "failed", !.nResult = cr.nResult + 1]]

CatchLocal_Retry(d, cr) == convertLocal(d, cr)

CatchLocal(d, cr) == ServerPath(d, [cr EXCEPT !.local = "failed"])

\* An await of convertLocal rejects (or the step after it throws)
LocalFailure(c) ==
  /\ c \in Convs /\ ~Pending
  /\ conv[c].pc \in LocalPcs
  /\ LET st == CatchLocal(dom, conv[c])
     IN dom' = st.dom /\ conv' = SetConv(c, st.conv)
  /\ UNCHANGED <<rev, ui, clicks>>

\* throw new Error("Local conversion not supported for this format.")
LocalUnsupported(c) ==
  /\ c \in Convs
  /\ conv[c].pc = "throw"
  /\ LET st == CatchLocal(dom, conv[c])
     IN dom' = st.dom /\ conv' = SetConv(c, st.conv)
  /\ UNCHANGED <<rev, ui, clicks>>

\* ------------------------------------------------------------ upload
\* xhr.upload.onprogress
UploadProgress(c, loaded, lengthComputable) ==
  /\ At(c, "upload")
  /\ loaded >= conv[c].loaded
  /\ dom' = IF lengthComputable
            THEN [dom EXCEPT !.bar = MathRound(loaded * 100, UploadTotal)]
            ELSE dom
  /\ conv' = SetConv(c, [conv[c] EXCEPT !.loaded = loaded])
  /\ UNCHANGED <<rev, ui, clicks>>

\* xhr.upload.onload
UploadLoad(c) ==
  /\ At(c, "upload")
  /\ dom' = [dom EXCEPT !.bar = 100, !.status = "Processing...", !.barInd = TRUE]
  /\ conv' = SetConv(c, [conv[c] EXCEPT !.pc = "sent", !.loaded = UploadTotal])
  /\ UNCHANGED <<rev, ui, clicks>>

\* ------------------------------------------------------------ submission reply
\* responseText, whether JSON.parse accepts it, and the fields of the parsed object
\* ("" for a field it does not have)
Body(text, json, job_id, download, filename, process_time, detail) ==
  [text |-> text, json |-> json, job_id |-> job_id, download |-> download,
   filename |-> filename, process_time |-> process_time, detail |-> detail]

Bodies ==
  { Body("{job}", TRUE, "j1", "", "", "", ""),
    Body("{}", TRUE, "", "", "", "", ""),
    Body("<html>", FALSE, "", "", "", "", ""),
    Body("", FALSE, "", "", "", "", ""),
    Body("{artifact}", TRUE, "", "/download/out", "out.bin", "1.5", ""),
    Body("{detail}", TRUE, "", "", "", "", "bad target") }

HttpStatuses == {200, 202, 500}

ErrorResult_NoText(msg) == Result("Error", "", "", "", "")

ErrorResult(msg) == Result("Error", "", "", msg, "")

\* a || b on strings
Or(a, b) == IF a # "" THEN a ELSE b

\* poll(): up to `await fetch(...)`
StartFetch(cr) == [cr EXCEPT !.inflight = cr.inflight + 1]

\* data = {}; try { data = JSON.parse(xhr.responseText) } catch {}; data.job_id
HasJobId_Always(body) == TRUE

HasJobId(body) == body.json /\ body.job_id # ""

\* pollTimer = setInterval(poll, 1000)
setInterval_Unassigned(timer) == timer

setInterval(timer) == "set"

\* xhr.onreadystatechange at readyState DONE, job-polling revision
ReadyStateDonePolling(d, cr, status, body) ==
  IF status = 200 \/ status = 202
  THEN IF ~HasJobId(body)
       THEN [dom  |-> [d EXCEPT !.result = ErrorResult("Unexpected server response."),
                                !.barInd = FALSE],
             conv |-> [cr EXCEPT !.pc = "end", !.nResult = cr.nResult + 1]]
       ELSE [dom  |-> [d EXCEPT !.barInd = FALSE],
             conv |-> [StartFetch(cr) EXCEPT !.pc = "polling",
                                              !.timer = setInterval(cr.timer)]]
  ELSE LET msg0 == Or(body.text, "HTTP " \o ToString(status))
           msg  == IF body.json THEN Or(body.detail, msg0) ELSE msg0
       IN [dom  |-> [d EXCEPT !.result = ErrorResult(msg), !.status = "",
                              !.barInd = FALSE],
           conv |-> [cr EXCEPT !.pc = "end", !.nResult = cr.nResult + 1]]

\* xhr.onreadystatechange at readyState DONE, synchronous revisions
ReadyStateDoneSync(d, cr, status, body) ==
  IF status = 200
  THEN IF body.json
       THEN [dom  |-> [d EXCEPT !.barInd = FALSE, !.status = "Done.",
                         !.result = Result("Done", Interp(body.download),
                                           Interp(body.filename),
                                           "Download " \o Interp(body.filename),
                                           body.process_time)],
             conv |-> [cr EXCEPT !.pc = "end", !.nResult = cr.nResult + 1]]
       ELSE [dom  |-> [d EXCEPT !.barInd = FALSE, !.status = "Done.",
                         !.result = Result("", "", "", "Download ready.", "")],
             conv |-> [cr EXCEPT !.pc = "end", !.nResult = cr.nResult + 1]]
  ELSE LET msg == IF rev = "static"
                  THEN (IF body.json THEN Or(body.detail, body.text)
                        ELSE Or(body.text, "Unknown error"))
                  ELSE (LET msg0 == Or(body.text, "HTTP " \o ToString(status))
                        IN IF body.json THEN Or(body.detail, msg0) ELSE msg0)
       IN [dom  |-> [d EXCEPT !.barInd = FALSE, !.status = "",
                              !.result = ErrorResult(msg)],
           conv |-> [cr EXCEPT !.pc = "end", !.nResult = cr.nResult + 1]]

ReadyStateDone(d, cr, status, body) ==
  IF rev = "polling" THEN ReadyStateDonePolling(d, cr, status, body)
  ELSE ReadyStateDoneSync(d, cr, status, body)

\* The reply to the submission arrives
XhrReadyStateChange(c, status, body) ==
  /\ At(c, "sent")
  /\ LET cr == [conv[c] EXCEPT !.xhr = [status |-> status, body |-> body]]
         st == ReadyStateDone(dom, cr, status, body)
     IN dom' = st.dom /\ conv' = SetConv(c, st.conv)
  /\ UNCHANGED <<rev, ui, clicks>>

\* The request fails on the network: readyState DONE with status 0 and an empty
\* responseText, then (where the revision sets xhr.onerror) the error event
XhrNetworkError(c) ==
  /\ c \in Convs /\ ~Pending
  /\ conv[c].pc \in {"upload", "sent"}
  /\ LET st == ReadyStateDone(dom, conv[c], 0, Body("", FALSE, "", "", "", "", ""))
     IN /\ dom' = st.dom
        /\ conv' = SetConv(c, [st.conv EXCEPT !.pc = IF rev = "static" THEN "end"
                                                      ELSE "onerror"])
  /\ UNCHANGED <<rev, ui, clicks>>

\* xhr.onerror
XhrOnError(c) ==
  /\ c \in Convs
  /\ conv[c].pc = "onerror"
  /\ dom' = [dom EXCEPT !.result = ErrorResult("Network error while uploading."),
                        !.status = "", !.barInd = FALSE]
  /\ conv' = SetConv(c, [conv[c] EXCEPT !.pc = "end",
                                        !.nResult = conv[c].nResult + 1])
  /\ UNCHANGED <<rev, ui, clicks>>

\* ------------------------------------------------------------ poll loop
\* The JSON of GET /api/status/<job>: "" for a field it does not have, hasPct
\* for the presence of percent
Reply(status, hasPct, percent, msg, download, filename, error) ==
  [status |-> status, hasPct |-> hasPct, percent |-> percent, msg |-> msg,
   download |-> download, filename |-> filename, error |-> error]

ServicePercents == {-5, 40, 100, 137}

StatusReplies ==
  { Reply("processing", TRUE, p, "", "", "", "") : p \in ServicePercents }
  \cup { Reply("processing", TRUE, 40, "Converting", "", "", "") }
  \cup { Reply(st, FALSE, 0, "", "", "", "") : st \in {"queued", "processing", "paused"} }
  \cup { Reply("", TRUE, 40, "", "", "", "") }
  \cup { Reply("done", TRUE, 100, "", "/download/j1", "deck.pdf", ""),
          Reply("done", FALSE, 0, "", "/download/j1", "", ""),
          Reply("done", TRUE, 40, "", "", "deck.pdf", "") }
  \cup { Reply("error", FALSE, 0, "", "", "", e) : e \in {"", "unsupported codec"} }

NoReply == Reply("", FALSE, 0, "", "", "", "")

\* Math.max(0, Math.min(100, Math.round(s.percent || 0)))
ClampPercent_Raw(s) == IF s.hasPct THEN MathRound(s.percent, 1) ELSE 0

ClampPercent(s) ==
  Max(0, Min(100, MathRound(IF s.hasPct THEN s.percent ELSE 0, 1)))

\* clearInterval(pollTimer)
clearInterval_Noop(timer) == timer

clearInterval(timer) == IF timer = "null" THEN "null" ELSE "cleared"

\* s.error || "Conversion failed."
PollErrorText_Generic(s) == "Conversion failed."

PollErrorText(s) == Or(s.error, "Conversion failed.")

\* The Done link of a finished job
PollDoneResult(s) ==
  Result("Done", Interp(s.download), Or(s.filename, "file"),
         "Download " \o Or(s.filename, "file"), "")

\* setInterval fires: poll() up to `await fetch(...)`
TimerTick(c) ==
  /\ At(c, "polling")
  /\ conv[c].timer = "set"
  /\ conv[c].inflight < MaxInflight
  /\ conv' = SetConv(c, StartFetch(conv[c]))
  /\ UNCHANGED <<rev, ui, dom, clicks>>

\* poll() after the fetch resolved with an OK reply whose body parsed to s
PollReply(d, cr, s) ==
  LET pct == ClampPercent(s)
      cr1 == [cr EXCEPT !.inflight = cr.inflight - 1,
                        !.lastPoll = [kind |-> "ok", s |-> s, pct |-> pct]]
      d1  == [d EXCEPT !.bar = pct,
                       !.status = IF s.msg # ""
                                  THEN s.msg \o " (" \o ToString(pct) \o "%)"
                                  ELSE "Processing... (" \o ToString(pct) \o "%)"]
  IN IF s.status = "done"
     THEN [dom  |-> [d1 EXCEPT !.result = PollDoneResult(s), !.status = "Done."],
           conv |-> [cr1 EXCEPT !.timer = clearInterval(cr.timer), !.terminal = TRUE,
                                !.nResult = cr.nResult + 1]]
     ELSE IF s.status = "error"
     THEN [dom  |-> [d1 EXCEPT !.result = ErrorResult(PollErrorText(s)),
                               !.status = ""],
           conv |-> [cr1 EXCEPT !.timer = clearInterval(cr.timer), !.terminal = TRUE,
                                !.nResult = cr.nResult + 1]]
     ELSE [dom |-> d1, conv |-> cr1]

FetchOk(c, s) ==
  /\ At(c, "polling")
  /\ conv[c].inflight > 0
  /\ LET st == PollReply(dom, conv[c], s)
     IN dom' = st.dom /\ conv' = SetConv(c, st.conv)
  /\ UNCHANGED <<rev, ui, clicks>>

\* poll(): the fetch rejected, the reply was not OK, or its body did not parse
PollCatch_Surface(d, cr) ==
  [dom  |-> [d EXCEPT !.result = ErrorResult("Status check failed.")],
   conv |-> [cr EXCEPT !.inflight = cr.inflight - 1, !.timer = clearInterval(cr.timer),
                       !.nResult = cr.nResult + 1,
                       !.lastPoll = [kind |-> "fail", s |-> NoReply, pct |-> 0]]]

PollCatch_Stop(d, cr) ==
  [dom  |-> d,
   conv |-> [cr EXCEPT !.inflight = cr.inflight - 1, !.timer = clearInterval(cr.timer),
                       !.lastPoll = [kind |-> "fail", s |-> NoReply, pct |-> 0]]]

PollCatch(d, cr) ==
  [dom  |-> d,
   conv |-> [cr EXCEPT !.inflight = cr.inflight - 1,
                       !.lastPoll = [kind |-> "fail", s |-> NoReply, pct |-> 0]]]

FetchFail(c) ==
  /\ At(c, "polling")
  /\ conv[c].inflight > 0
  /\ LET st == PollCatch(dom, conv[c])
     IN dom' = st.dom /\ conv' = SetConv(c, st.conv)
  /\ UNCHANGED <<rev, ui, clicks>>

\* ------------------------------------------------------------ specification
Next ==
  \/ \E f \in Files : onFilePicked(f)
  \/ \E t \in UserTargets : SelectTarget(t)
  \/ \E t \in UserTargets : ChipClick(t)
  \/ ToggleLocal
  \/ ClickConvert
  \/ \E c \in ConvIds : ArrayBufferOk(c)
  \/ \E c \in ConvIds, n \in 0..MaxPages : GetDocumentOk(c, n)
  \/ \E c \in ConvIds : GetPageOk(c)
  \/ \E c \in ConvIds : RenderOk(c)
  \/ \E c \in ConvIds : ToBlobOk(c)
  \/ \E c \in ConvIds : GenerateAsyncOk(c)
  \/ \E c \in ConvIds : CreateImageBitmapOk(c)
  \/ \E c \in ConvIds : ToBlobImageOk(c)
  \/ \E c \in ConvIds : LocalFailure(c)
  \/ \E c \in ConvIds : LocalUnsupported(c)
  \/ \E c \in ConvIds, l \in 0..UploadTotal, lc \in BOOLEAN : UploadProgress(c, l, lc)
  \/ \E c \in ConvIds : UploadLoad(c)
  \/ \E c \in ConvIds, st \in HttpStatuses, b \in Bodies : XhrReadyStateChange(c, st, b)
  \/ \E c \in ConvIds : XhrNetworkError(c)
  \/ \E c \in ConvIds : XhrOnError(c)
  \/ \E c \in ConvIds : TimerTick(c)
  \/ \E c \in ConvIds, s \in StatusReplies : FetchOk(c, s)
  \/ \E c \in ConvIds : FetchFail(c)

Spec == Init /\ [][Next]_vars

\* ------------------------------------------------------------ properties
Terminal == {"done", "error"}

\* The step is conversion c's poll continuation: a status fetch of c completed
PollStep(c) == c \in Convs /\ conv'[c].inflight < conv[c].inflight

\* C1: whenever a local attempt has failed, xhr.send has been called exactly once
\* for that click, and the step in which the attempt fails writes no result to
\* resultBox.
C1_LocalFailureFallsBack ==
  [][\A c \in DOMAIN conv' :
       conv'[c].local = "failed" =>
         /\ conv'[c].nSend = 1
         /\ (c \in Convs /\ conv[c].local # "failed") =>
              /\ conv[c].nSend = 0
              /\ conv'[c].pc = "upload"
              /\ dom'.result = dom.result
              /\ conv'[c].nResult = conv[c].nResult]_vars

C1_Witness ==
  \E c \in Convs :
    /\ conv[c].local = "failed" /\ conv[c].done >= 1
    /\ conv[c].nSend = 1 /\ conv[c].nResult = 0

\* C2: in the job-polling revision one click writes at most one result (a Done
\* link or an Error pill) to resultBox.
C2_AtMostOneResult == rev = "polling" => \A c \in Convs : conv[c].nResult <= 1

\* C3: once a poll of a click has handled status done or error, no later poll
\* continuation of that click changes the bar width or the status line.
C3_NoProgressAfterTerminal ==
  [][\A c \in Convs :
       (conv[c].terminal /\ PollStep(c)) =>
         (dom'.bar = dom.bar /\ dom'.status = dom.status)]_vars

\* C4: a failed status fetch writes no result and leaves the timer as it is; the
\* timer is cleared only by a fetched status of done or error; a fetched status
\* that is neither leaves the timer as it is and writes no result.
C4_PollLoopKeepsRunning ==
  [][\A c \in Convs :
       LET a == conv[c]
           b == conv'[c]
       IN /\ (PollStep(c) /\ b.lastPoll.kind = "fail") =>
               (b.timer = a.timer /\ b.nResult = a.nResult /\ dom'.result = dom.result)
          /\ (a.timer = "set" /\ b.timer # "set") =>
               (PollStep(c) /\ b.lastPoll.kind = "ok"
                            /\ b.lastPoll.s.status \in Terminal)
          /\ (PollStep(c) /\ b.lastPoll.kind = "ok"
                          /\ b.lastPoll.s.status \notin Terminal) =>
               (b.timer = a.timer /\ b.nResult = a.nResult /\ b.terminal = a.terminal)]_vars

C4_Witness ==
  \E c \in Convs :
    /\ conv[c].lastPoll.kind = "fail" /\ conv[c].timer = "set"
    /\ conv[c].nResult = 0 /\ conv[c].inflight > 0

\* C5: once a poll has handled status done or error the timer is cleared and no
\* status fetch is started for that job any more; the result written for done
\* holds the reply's download and filename.
C5_TerminalStopsPolling ==
  [][\A c \in Convs :
       LET a == conv[c]
           b == conv'[c]
       IN /\ b.terminal => b.timer = "cleared"
          /\ a.terminal => b.inflight <= a.inflight
          /\ (PollStep(c) /\ b.lastPoll.kind = "ok" /\ b.lastPoll.s.status = "done") =>
               /\ dom'.result.pill = "Done"
               /\ b.lastPoll.s.download # "" => dom'.result.href = b.lastPoll.s.download
               /\ b.lastPoll.s.filename # "" =>
                    dom'.result.filename = b.lastPoll.s.filename]_vars

C5_Witness ==
  \E c \in Convs :
    /\ conv[c].terminal /\ conv[c].timer = "cleared"
    /\ conv[c].lastPoll.s.status = "done"
    /\ dom.result.href = "/download/j1" /\ dom.result.filename = "deck.pdf"

\* C6: the width a poll continuation writes to the bar is in 0..100: 100 for a
\* reported percent above 100, 0 for one below 0, the percent itself otherwise.
C6_PercentClamped ==
  [][\A c \in Convs :
       (PollStep(c) /\ conv'[c].lastPoll.kind = "ok") =>
         LET s == conv'[c].lastPoll.s
         IN /\ dom'.bar \in 0..100
            /\ (s.hasPct /\ s.percent > 100) => dom'.bar = 100
            /\ (s.hasPct /\ s.percent < 0) => dom'.bar = 0
            /\ (s.hasPct /\ s.percent \in 0..100) => dom'.bar = s.percent]_vars

C6_Witness ==
  \E c \in Convs :
    /\ conv[c].lastPoll.kind = "ok" /\ conv[c].lastPoll.s.hasPct
    /\ conv[c].lastPoll.s.percent = 137 /\ dom.bar = 100

\* C7: a click enters the local attempt exactly when the local toggle is on and
\* the target is in the LOCAL_OK row of the source extension; otherwise it sends
\* the submission at once, and a click that did not enter it never does later.
C7_LocalIffToggleAndTable ==
  [][/\ Len(conv') > Len(conv) =>
          LET b == conv'[Len(conv')]
              eligible == /\ ui.local
                          /\ b.srcExt \in DOMAIN LOCAL_OK
                          /\ b.target \in LOCAL_OK[b.srcExt]
          IN /\ (b.local # "none") <=> eligible
             /\ ~eligible => (b.pc = "upload" /\ b.nSend = 1)
             /\ b.srcExt = "pptx" => b.local = "none"
     /\ \A c \in Convs : (conv'[c].local = "none") <=> (conv[c].local = "none")]_vars

C7_Witness ==
  \E c \in Convs :
    /\ conv[c].srcExt = "pptx" /\ ui.local
    /\ conv[c].local = "none" /\ conv[c].nSend = 1

\* C8: a click whose local attempt succeeded has written one result, has sent no
\* submission and has no timer and no status fetch; for an image source the
\* result's filename is the source name with its extension replaced by the target.
C8_LocalSuccessStaysLocal ==
  \A c \in Convs :
    conv[c].local = "done" =>
      /\ conv[c].pc = "end" /\ conv[c].nResult = 1
      /\ conv[c].nSend = 0 /\ conv[c].timer = "null" /\ conv[c].inflight = 0
      /\ conv[c].srcExt # "pdf" =>
           conv[c].out.filename =
             Join(SubSeq(conv[c].file, 1, Len(conv[c].file) - 1)) \o "." \o conv[c].target
      /\ (conv[c].file = <<"photo", "png">> /\ conv[c].target = "webp") =>
           conv[c].out.filename = "photo.webp"

C8_Witness ==
  \E c \in Convs :
    /\ conv[c].file = <<"photo", "png">> /\ conv[c].target = "webp"
    /\ conv[c].local = "done" /\ dom.result.filename = "photo.webp"

\* p is x/n rounded to the nearest integer, halves upwards
IsRounded(p, x, n) == (2 * p - 1) * n <= 2 * x /\ 2 * x < (2 * p + 1) * n

\* C9: a local PDF conversion of N pages adds page k as the k-th entry, writes
\* round(k/N*100) after page k, and, when it succeeds, has run N cycles and
\* yields base name + "_" + target + ".zip".
C9_PdfPagesPercentsName ==
  \A c \in Convs :
    (conv[c].srcExt = "pdf" /\ conv[c].local # "none") =>
      /\ Len(conv[c].zip) = conv[c].done /\ Len(conv[c].pcts) = conv[c].done
      /\ conv[c].done <= conv[c].pages
      /\ \A k \in 1..conv[c].done :
           /\ conv[c].zip[k] = "page-" \o ToString(k) \o "." \o conv[c].target
           /\ IsRounded(conv[c].pcts[k], 100 * k, conv[c].pages)
      /\ (conv[c].done = 3 /\ conv[c].pages = 3) => conv[c].pcts = <<33, 67, 100>>
      /\ conv[c].local = "done" =>
           /\ conv[c].done = conv[c].pages
           /\ conv[c].out.filename =
                Join(SubSeq(conv[c].file, 1, Len(conv[c].file) - 1))
                  \o "_" \o conv[c].target \o ".zip"
           /\ (conv[c].file = <<"report", "pdf">> /\ conv[c].target = "jpg") =>
                conv[c].out.filename = "report_jpg.zip"

C9_Witness ==
  \E c \in Convs :
    /\ conv[c].file = <<"report", "pdf">> /\ conv[c].target = "jpg"
    /\ conv[c].local = "done" /\ conv[c].pages = 3
    /\ conv[c].pcts = <<33, 67, 100>>
    /\ conv[c].zip = <<"page-1.jpg", "page-2.jpg", "page-3.jpg">>
    /\ dom.result.filename = "report_jpg.zip"

\* C10: a local attempt that succeeded wrote non-decreasing widths to the bar and
\* wrote 100 exactly once.
C10_HundredExactlyOnce ==
  \A c \in Convs :
    conv[c].local = "done" =>
      /\ \A j, k \in 1..Len(conv[c].pcts) : j <= k => conv[c].pcts[j] <= conv[c].pcts[k]
      /\ Cardinality({k \in 1..Len(conv[c].pcts) : conv[c].pcts[k] = 100}) = 1

\* ------------------------------------------------------------ resolver specification
\* Every extension a format list of some revision names, two that none names,
\* a name without a dot, a name ending in a dot, and upper-case extensions.
Exts ==
  {"jpg", "jpeg", "png", "webp", "gif", "tiff", "bmp", "ico", "pdf",
   "mp3", "wav", "aac", "flac", "ogg", "mp4", "mkv", "mov", "webm",
   "doc", "docx", "ppt", "pptx", "xls", "xlsx", "odt", "odp", "ods", "rtf", "txt",
   "csv", "vcf", "srt", "vtt", "json", "yaml", "yml",
   "heic", "xyz"}

ResolverFiles ==
  { <<"sample", e>> : e \in Exts }
  \cup { <<"README">>, <<"archive", "">>, <<"Scan", "JPEG">>, <<"report", "PDF">> }

ResolverInit ==
  /\ rev \in AllRevs
  /\ ui \in [file : {NoFile}, target : {""}, opts : {<<>>}, top : {<<>>},
             local : BOOLEAN, disabled : BOOLEAN]
  /\ dom = ResetDom
  /\ conv = <<>>
  /\ clicks = 1

ResolverNext == \E f \in ResolverFiles : onFilePicked(f)

ResolverSpec == ResolverInit /\ [][ResolverNext]_vars

\* The elements of a sequence
Range(s) == {s[i] : i \in 1..Len(s)}

NoDuplicates(s) == \A i, j \in 1..Len(s) : s[i] = s[j] => i = j

\* The extension is in a format list of the running revision
Supported(ext) ==
  Includes(IMAGE_IN, ext) \/ Includes(AV_IN, ext) \/ Includes(DOC_IN, ext)
    \/ Includes(DATA_IN, ext)

\* The output catalog declared for a category
Catalog(cat) ==
  CASE cat = "image" -> IMAGE_OUT
    [] cat \in {"audio", "video"} -> AV_OUT
    [] cat = "data" -> DATA_OUT
    [] OTHER -> DOC_OUT

\* C11: once a file is picked, whatever its extension, the options of the select
\* are allTargetsFor of the extension and its guessed category, the chips shown
\* are all among these options, and no option occurs twice.
C11_SuggestedSubsetOfFull ==
  ui.file # NoFile =>
    LET ext  == extOf(ui.file)
        full == allTargetsFor(ext, guessCategory(ext))
    IN /\ ui.opts = full
       /\ Range(ui.top) \subseteq Range(full)
       /\ NoDuplicates(full)

\* A picked file for which the filter removed a suggestion and kept others
C11_Witness ==
  /\ ui.file # NoFile
  /\ LET ext == extOf(ui.file)
     IN /\ Len(ui.top) > 0
        /\ Len(ui.top) < Len(suggestedTargets(ext, guessCategory(ext)))

\* C12: once a file is picked whose extension has a LOCAL_OK row, every target of
\* the row is an option of the select, in every revision.
C12_LocalTargetsSelectable ==
  (ui.file # NoFile /\ extOf(ui.file) \in DOMAIN LOCAL_OK) =>
    \A t \in LOCAL_OK[extOf(ui.file)] : Includes(ui.opts, t)

\* C13: in the revisions that declare output catalogs, once a file with a
\* supported extension is picked, every option of the select is in the catalog
\* of the category guessCategory gives the extension.
C13_TargetsWithinCatalog ==
  (~V1 /\ ui.file # NoFile /\ Supported(extOf(ui.file))) =>
    Range(ui.opts) \subseteq Range(Catalog(guessCategory(extOf(ui.file))))

\* C14: once a file with an unknown or empty extension is picked, its category
\* is "doc", the select has no option and Convert is disabled.
C14_UnknownHasNoTargets ==
  (ui.file # NoFile /\ ~Supported(extOf(ui.file))) =>
    /\ guessCategory(extOf(ui.file)) = "doc"
    /\ ui.opts = <<>>
    /\ ui.disabled

\* C15: once a file is picked whose extension is a member of DATA_IN, its
\* category is "data" and the options of the select are DATA_OUT.
C15_DataInIsData ==
  (ui.file # NoFile /\ Includes(DATA_IN, extOf(ui.file))) =>
    /\ guessCategory(extOf(ui.file)) = "data"
    /\ ui.opts = DATA_OUT

\* ------------------------------------------------------------ remote client
\* The step is the arrival of the reply to conversion c's submission
ReplyStep(c) == c \in Convs /\ conv[c].pc = "sent" /\ conv'[c].pc # "sent"

\* C16: when a poll handles a reply whose status is "error", the result shown is
\* the Error pill with exactly the reply's error text, or with "Conversion
\* failed." when the reply has no error text.
C16_ErrorTextShown ==
  [][\A c \in Convs :
       (PollStep(c) /\ conv'[c].lastPoll.kind = "ok"
          /\ conv'[c].lastPoll.s.status = "error") =>
         LET e == conv'[c].lastPoll.s.error
         IN dom'.result =
              Result("Error", "", "", IF e # "" THEN e ELSE "Conversion failed.", "")
     ]_vars

\* A poll has handled status "error" with the text "unsupported codec"
C16_Witness ==
  \E c \in Convs :
    /\ conv[c].terminal
    /\ conv[c].lastPoll.s.status = "error"
    /\ conv[c].lastPoll.s.error = "unsupported codec"
    /\ dom.result.pill = "Error"
    /\ dom.result.text = "unsupported codec"

C18_BothShapesAccepted ==
  [][\A c \in Convs :
       (ReplyStep(c) /\ conv'[c].xhr.status = 200 /\ conv'[c].xhr.body.json) =>
         LET b == conv'[c].xhr.body
         IN /\ (b.download # "" /\ b.job_id = "") =>
                 /\ dom'.result.pill = "Done"
                 /\ dom'.result.href = b.download
                 /\ conv'[c].pc = "end"
            /\ b.job_id # "" =>
                 /\ conv'[c].pc = "polling"
                 /\ conv'[c].timer = "set"
     ]_vars

\* C19: when a poll handles a non-terminal reply without percent, the
\* indeterminate indicator is shown and the status line carries no percent.
C19_NoPercentIsIndeterminate ==
  [][\A c \in Convs :
       (PollStep(c) /\ conv'[c].lastPoll.kind = "ok"
          /\ ~conv'[c].lastPoll.s.hasPct
          /\ conv'[c].lastPoll.s.status \notin Terminal) =>
         /\ dom'.barInd
         /\ dom'.status # Or(conv'[c].lastPoll.s.msg, "Processing...") \o " (0%)"
     ]_vars

\* C20: the FormData of every submission sent holds the file, the target and
\* the category guessCategory gives the source extension.
C20_SubmissionCarriesCategory ==
  \A c \in Convs :
    conv[c].nSend > 0 =>
      /\ {"file", "target", "category"} \subseteq conv[c].fd.keys
      /\ conv[c].fd.file = conv[c].file
      /\ conv[c].fd.target = conv[c].target
      /\ conv[c].fd.category = guessCategory(conv[c].srcExt)

\* ------------------------------------------------------------ progress
\* C21: when two replies handled one after the other by the polls of one
\* conversion both carry a non-terminal status, the percent written to the bar
\* for the second is not below the percent written for the first.
C21_PollPercentNonDecreasing ==
  [][\A c \in Convs :
       (PollStep(c) /\ conv[c].lastPoll.kind = "ok"
          /\ conv'[c].lastPoll.kind = "ok"
          /\ conv[c].lastPoll.s.status \notin Terminal
          /\ conv'[c].lastPoll.s.status \notin Terminal) =>
         conv'[c].lastPoll.pct >= conv[c].lastPoll.pct
     ]_vars

\* C22: in the step in which a local attempt that has written progress to the
\* bar fails and the server path starts, the bar is set to 0.
C22_FallbackResetsPercent ==
  [][\A c \in Convs :
       (conv[c].local = "running" /\ conv'[c].local = "failed"
          /\ conv[c].pcts # <<>>) =>
         dom'.bar = 0
     ]_vars

\* ------------------------------------------------------------ two clicks
\* The job-polling revision with Convert clicked twice, for a file that has no
\* local path: the second click can come while the first job is being polled.
TwoClickFiles == { <<"deck", "pptx">> }

TwoClickReplies ==
  { Reply("processing", TRUE, 40, "", "", "", ""),
    Reply("done", TRUE, 100, "", "/download/j1", "deck.pdf", ""),
    Reply("error", FALSE, 0, "", "", "", "unsupported codec") }

TwoClickInit ==
  /\ rev = "polling"
  /\ ui \in [file : {NoFile}, target : {""}, opts : {<<>>}, top : {<<>>},
             local : BOOLEAN, disabled : BOOLEAN]
  /\ dom = ResetDom
  /\ conv = <<>>
  /\ clicks = 2

TwoClickNext ==
  \/ \E f \in TwoClickFiles : onFilePicked(f)
  \/ ClickConvert
  \/ \E c \in ConvIds : UploadLoad(c)
  \/ \E c \in ConvIds : XhrReadyStateChange(c, 202, Body("{job}", TRUE, "j1", "", "", "", ""))
  \/ \E c \in ConvIds : TimerTick(c)
  \/ \E c \in ConvIds, s \in TwoClickReplies : FetchOk(c, s)
  \/ \E c \in ConvIds : FetchFail(c)

TwoClickSpec == TwoClickInit /\ [][TwoClickNext]_vars

\* C23: the click of Convert that starts a new conversion leaves no earlier
\* conversion with its poll timer set, and an earlier conversion whose timer
\* was running at that click writes nothing afterwards.
C23_NewClickStopsOldPolling ==
  [][/\ Len(conv') > Len(conv) => \A c \in Convs : conv'[c].timer # "set"
     /\ \A c \in Convs :
          (c < Len(conv) /\ PollStep(c)) => dom' = dom
     ]_vars

\* Conversion c has been started and has not shown its terminal result
InFlight(c) == conv[c].pc \in {"upload", "sent", "polling"} /\ ~conv[c].terminal

\* C24: while a conversion is in flight, a handler of another conversion does
\* not write bar, barInd, statusLine or resultBox.
C24_OwnSink ==
  [][\A c, d \in Convs :
       (c # d /\ conv'[c] # conv[c] /\ InFlight(d)) => dom' = dom
     ]_vars

C26_UnparsableIsNotSuccess ==
  [][\A c \in Convs :
       (ReplyStep(c) /\ conv'[c].xhr.status = 200 /\ ~conv'[c].xhr.body.json) =>
         /\ dom'.result.pill # "Done"
         /\ dom'.status # "Done."
         /\ dom'.result.text # "Download ready."
     ]_vars

\* The submission of conversion c was answered with an HTTP failure status
HttpFailure(cr) == cr.xhr.status \notin {0, 200, 202}

\* The text of an HTTP failure: detail, else the response text, else the fallback
FailureText(cr, fallback) ==
  LET b == cr.xhr.body
  IN IF b.json /\ b.detail # "" THEN b.detail
     ELSE IF b.text # "" THEN b.text
     ELSE fallback

\* A conversion answered with an HTTP failure status has ended: no timer, no
\* status fetch, one xhr.send
FailureIsTerminal(cr) ==
  /\ cr.pc = "end"
  /\ cr.timer = "null"
  /\ cr.inflight = 0
  /\ cr.lastPoll.kind = "none"
  /\ cr.nSend = 1

C28_NoChipNoDefault ==
  (ui.file # NoFile /\ ui.top = <<>>) => (ui.target = "" /\ ui.disabled)

\* A picked file with no chip and no selected target
C28_Witness ==
  /\ ui.file # NoFile
  /\ ui.top = <<>>
  /\ ui.target = ""
  /\ ui.disabled
  /\ suggestedTargets(extOf(ui.file), guessCategory(extOf(ui.file))) = <<>>

\* ------------------------------------------------------------ local engine
\* C29: the archive of a PDF conversion holds, in order, the entries
\* page-1.<target>, page-2.<target>, ...: never more than the document has pages,
\* exactly one per page when the conversion is done; an entry is added only by
\* the step that follows the page's render and encode, one at a time.
C29_ArchiveOneEntryPerPage ==
  [][\A c \in DOMAIN conv' :
       LET cr == conv'[c]
       IN /\ \A k \in 1..Len(cr.zip) :
               cr.zip[k] = "page-" \o ToString(k) \o "." \o cr.target
          /\ Len(cr.zip) <= cr.pages
          /\ (cr.local = "done" /\ cr.srcExt = "pdf") => Len(cr.zip) = cr.pages
          /\ (c \in Convs /\ cr.zip # conv[c].zip) =>
               /\ conv[c].pc = "toBlob"
               /\ Len(cr.zip) = Len(conv[c].zip) + 1
               /\ Len(cr.zip) = conv[c].i
     ]_vars

\* A PDF of more than one page was converted, the last page's entry included
C29_Witness ==
  \E c \in Convs :
    /\ conv[c].local = "done"
    /\ conv[c].pages >= 2
    /\ Len(conv[c].zip) = conv[c].pages
    /\ conv[c].zip[1] = "page-1." \o conv[c].target
    /\ conv[c].zip[conv[c].pages] = PageEntry(conv[c].pages, conv[c].target)

\* The position of an await in convertLocal's pipeline
Rank(pc) ==
  CASE pc \in {"arrayBuffer", "createImageBitmap"} -> 1
    [] pc \in {"getDocument", "toBlobImage"} -> 2
    [] pc = "getPage" -> 3
    [] pc = "render" -> 4
    [] pc = "toBlob" -> 5
    [] pc = "generateAsync" -> 6
    [] OTHER -> 0

\* C30: while convertLocal runs nothing has been sent; each of its steps either
\* moves on in the pipeline, or returns the result, or fails; the failing step
\* leaves the pipeline without a local result and without repeating a step, and
\* after it no step of the pipeline runs again for that click.
C30_LocalFailureAborts ==
  [][\A c \in Convs :
       LET a == conv[c]
           b == conv'[c]
       IN /\ b.local = "running" => b.nSend = 0
          /\ (a.local = "running" /\ b # a) =>
               \/ /\ b.local = "running" /\ b.pc \in LocalPcs
                  /\ (b.i > a.i \/ Rank(b.pc) > Rank(a.pc))
               \/ b.local = "done" /\ b.pc = "end"
               \/ /\ b.local = "failed" /\ b.pc \notin LocalPcs \cup {"throw"}
                  /\ b.out = EmptyResult /\ b.nResult = a.nResult
                  /\ b.zip = a.zip /\ b.pcts = a.pcts /\ b.done = a.done
          /\ a.local = "failed" =>
               /\ b.local = "failed" /\ b.pc \notin LocalPcs \cup {"throw"}
               /\ b.out = EmptyResult
               /\ b.zip = a.zip /\ b.pcts = a.pcts /\ b.done = a.done
     ]_vars

\* A PDF conversion failed after its first page and went on on the server path
C30_Witness ==
  \E c \in Convs :
    /\ conv[c].local = "failed"
    /\ conv[c].pages >= 2
    /\ conv[c].done = 1
    /\ conv[c].out = EmptyResult
    /\ conv[c].pc \in {"sent", "polling", "end"}

\* ------------------------------------------------------------ local capability
\* C31: no click reaches convertLocal's last line, the throw of "Local
\* conversion not supported for this format.": every pair canDoLocal accepts
\* is handled by a branch of convertLocal, in every revision.
C31_LocalOkPairsHaveBranch ==
  \A c \in Convs :
    /\ conv[c].pc # "throw"
    /\ conv[c].local # "none" =>
         \/ (rev # "imageonly" /\ PdfBranch(conv[c]))
         \/ ImageBranch(conv[c])

\* ------------------------------------------------------------ poll timer
\* C32: in the job-polling revision the reply that starts the loop leaves one
\* fetch in flight with pollTimer assigned; a conversion with a fetch in flight
\* or a reply handled has pollTimer assigned; and once a terminal status is
\* handled pollTimer is cleared, so no terminal status is handled with
\* pollTimer still null.
C32_TimerAssignedBeforeClear ==
  [][\A c \in DOMAIN conv' :
       LET b == conv'[c]
       IN /\ (b.inflight > 0 \/ b.lastPoll.kind # "none") => b.timer # "null"
          /\ b.terminal => b.timer = "cleared"
          /\ (ReplyStep(c) /\ b.pc = "polling") =>
               (b.timer = "set" /\ b.inflight = 1)
          /\ (c \in Convs /\ PollStep(c)) => conv[c].timer # "null"
     ]_vars

\* The loop was stopped by a terminal status with no other fetch outstanding
C32_Witness ==
  \E c \in Convs :
    /\ conv[c].pc = "polling"
    /\ conv[c].terminal
    /\ conv[c].timer = "cleared"
    /\ conv[c].inflight = 0
    /\ conv[c].nResult = 1

\* ------------------------------------------------------------ poll loop, liveness
\* A status fetch of conversion c settles
FetchSettles(c) == FetchFail(c) \/ \E s \in TwoClickReplies : FetchOk(c, s)

\* A status fetch settles without a terminal status: it fails, or its reply is
\* neither done nor error
FetchNotTerminal ==
  \E c \in ConvIds :
    \/ FetchFail(c)
    \/ \E s \in TwoClickReplies : s.status \notin Terminal /\ FetchOk(c, s)

\* The job-polling revision of TwoClickSpec, where the interval timer keeps
\* firing while it is set, every fetch settles, and from some point on every
\* fetch that settles carries status done or error.
PollLiveSpec ==
  /\ TwoClickInit
  /\ [][TwoClickNext]_vars
  /\ \A c \in ConvIds : WF_vars(TimerTick(c)) /\ WF_vars(FetchSettles(c))
  /\ <>[][~FetchNotTerminal]_vars

\* C33: a conversion whose poll loop has started eventually has handled a
\* terminal status, with its timer cleared and a result written.
C33_PollLoopEventuallyStops ==
  \A c \in ConvIds :
    (c \in Convs /\ conv[c].pc = "polling")
      ~> (c \in Convs /\ conv[c].terminal /\ conv[c].timer = "cleared"
            /\ conv[c].nResult >= 1)

\* A poll loop has stopped on status done, with no fetch outstanding
C33_Witness ==
  \E c \in Convs :
    /\ conv[c].terminal
    /\ conv[c].timer = "cleared"
    /\ conv[c].inflight = 0
    /\ conv[c].lastPoll.kind = "ok"
    /\ conv[c].lastPoll.s.status = "done"
    /\ dom.result.pill = "Done"

\* ------------------------------------------------------------ own format
\* Two extensions of one format: equal, or the pair jpg and jpeg
SameFormat(a, b) == a = b \/ {a, b} = {"jpg", "jpeg"}

\* C34: once a file is picked, no option of the select is the file's own
\* format, jpg counting as jpeg's own.
C34_NoSelfTarget ==
  ui.file # NoFile =>
    \A k \in 1..Len(ui.opts) : ~SameFormat(ui.opts[k], extOf(ui.file))

====
